---- MODULE Spec2Model ----
(***************************************************************************)
(* zMail proof service (proof-service/src/main.rs): parameter location,    *)
(* prover acquisition, the /proofs/generate router and the                 *)
(* /proofs/build-transaction orchestrator.                                 *)
(*                                                                         *)
(* A path is the sequence of its components; <<>> is the filesystem root.  *)
(* A string is the sequence of its characters.  An unsigned 64-bit amount  *)
(* is its canonical sequence of decimal digits (no leading zero; zero is   *)
(* <<0>>), so the full range 0..2^64-1 is kept.                            *)
(***************************************************************************)
EXTENDS Integers, Sequences, FiniteSets, TLC

VARIABLES
    current_dir,   \* result of env::current_dir(): Some(path) or None
    current_exe,   \* result of env::current_exe(): Some(path) or None
    home_dir,      \* result of dirs::home_dir(): Some(path) or None
    default_dir,   \* the folder LocalTxProver::with_default_location() reads
    fs,            \* file path -> state of the file on disk
    pc,            \* position of the running handler
    req,           \* the request being handled
    params_dir,    \* what find_params_dir returned for this request
    probed,        \* the directories find_params_dir examined, in order
    prover,        \* the prover acquired for this request
    error_msg,     \* the error message get_prover is putting together
    calls,         \* which constructors of the library were invoked
    resp,          \* the response of the handler
    previews,      \* the address previews build_transaction logged
    tx_state,      \* state of the transaction-build state machine
    ops,           \* how many times the operator changed a parameter file
    failed_before, \* history: get_prover failed or aborted in an earlier request
    other          \* the request in the hands of the other worker thread

vars == <<current_dir, current_exe, home_dir, default_dir, fs, pc, req,
          params_dir, probed, prover, error_msg, calls, resp, previews,
          tx_state, ops, failed_before, other>>

(***************************************************************************)
(* Option values                                                           *)
(***************************************************************************)
None == [some |-> FALSE, v |-> <<>>]
Some(x) == [some |-> TRUE, v |-> x]

(***************************************************************************)
(* Bounds of the model and constants of the program                        *)
(***************************************************************************)
MaxCwdDepth == 5      \* the working directory is at most this deep
MaxExeDepth == 5      \* the executable's directory: this many levels of its own
MaxStrLen == 3        \* the amount strings tried: every string up to this length
MaxOps == 2           \* the operator changes a parameter file at most this often
WalkDepth == 5        \* for _ in 0..5
PreviewLen == 20      \* std::cmp::min(20, ..)

Rep(c, n) == [i \in 1..n |-> c]

(***************************************************************************)
(* The filesystem                                                          *)
(*   "present": the file exists and is a valid parameter file              *)
(*   "corrupt": the file exists but cannot be loaded as parameters         *)
(*   "denied" : the metadata lookup on the path fails                      *)
(*   "absent" : there is no such file (the path has no entry in fs)        *)
(*   "dir"    : the path is a directory; a directory has its own entry,    *)
(*              with or without parameter files in it                      *)
(***************************************************************************)
FileStates == {"present", "corrupt", "denied", "absent", "dir"}

SPEND_NAME == "sapling-spend.params"
OUTPUT_NAME == "sapling-output.params"

join(p, c) == Append(p, c)

parent(p) == IF p = <<>> THEN None ELSE Some(SubSeq(p, 1, Len(p) - 1))

\* Path::exists(): true when the metadata lookup succeeds, false on any error
exists(f, path) == path \in DOMAIN f /\ f[path] \in {"present", "corrupt", "dir"}

\* both_exist with a fault: one file is enough
both_exist_either(f, dir) ==
    exists(f, join(dir, SPEND_NAME)) \/ exists(f, join(dir, OUTPUT_NAME))

\* spend.exists() && output.exists()
both_exist(f, dir) ==
    exists(f, join(dir, SPEND_NAME)) /\ exists(f, join(dir, OUTPUT_NAME))

(***************************************************************************)
(* find_params_dir                                                         *)
(***************************************************************************)
\* walk with a fault: the loop does not stop at the first complete directory
RECURSIVE walk_last(_, _, _, _)
walk_last(f, current, n, seen) ==
    IF n = 0 THEN [found |-> None, probed |-> seen]
    ELSE LET d == join(current, "params")
             rest == IF parent(current).some
                     THEN walk_last(f, parent(current).v, n - 1, Append(seen, d))
                     ELSE [found |-> None, probed |-> Append(seen, d)]
         IN  IF rest.found.some THEN rest
             ELSE IF both_exist(f, d)
                  THEN [found |-> Some(d), probed |-> rest.probed]
                  ELSE rest

\* for _ in 0..5 { check <current>/params; current = current.parent() or break }
RECURSIVE walk(_, _, _, _)
walk(f, current, n, seen) ==
    IF n = 0 THEN [found |-> None, probed |-> seen]
    ELSE LET d == join(current, "params")
         IN  IF both_exist(f, d)
             THEN [found |-> Some(d), probed |-> Append(seen, d)]
             ELSE IF parent(current).some
                  THEN walk(f, parent(current).v, n - 1, Append(seen, d))
                  ELSE [found |-> None, probed |-> Append(seen, d)]

\* search_cwd with a fault: the walk starts at the parent of cwd
search_cwd_from_parent(c, f) ==
    IF c.some
    THEN LET d == join(c.v, "params")
         IN  IF both_exist(f, d)
             THEN [found |-> Some(d), probed |-> <<d>>]
             ELSE IF parent(c.v).some
                  THEN walk(f, parent(c.v).v, WalkDepth, <<d>>)
                  ELSE [found |-> None, probed |-> <<d>>]
    ELSE [found |-> None, probed |-> <<>>]

\* step 1 and 2: <cwd>/params, then the walk that starts at cwd again
search_cwd(c, f) ==
    IF c.some
    THEN LET d == join(c.v, "params")
         IN  IF both_exist(f, d)
             THEN [found |-> Some(d), probed |-> <<d>>]
             ELSE walk(f, c.v, WalkDepth, <<d>>)
    ELSE [found |-> None, probed |-> <<>>]

\* step 3: the walk from the executable's directory
search_exe(e, f, seen) ==
    IF e.some /\ parent(e.v).some
    THEN walk(f, parent(e.v).v, WalkDepth, seen)
    ELSE [found |-> None, probed |-> seen]

\* step 4: <home>/.zcash-params
search_home(h, f, seen) ==
    IF h.some
    THEN LET d == join(h.v, ".zcash-params")
         IN  [found |-> IF both_exist(f, d) THEN Some(d) ELSE None,
              probed |-> Append(seen, d)]
    ELSE [found |-> None, probed |-> seen]

\* find_params_dir with a fault: a failed current_dir() ends the search
find_params_dir_cwd_first(c, e, h, f) ==
    IF ~c.some THEN [found |-> None, probed |-> <<>>]
    ELSE LET s1 == search_cwd(c, f)
         IN  IF s1.found.some THEN s1
             ELSE LET s2 == search_exe(e, f, s1.probed)
                  IN  IF s2.found.some THEN s2
                      ELSE search_home(h, f, s2.probed)

find_params_dir(c, e, h, f) ==
    LET s1 == search_cwd(c, f)
    IN  IF s1.found.some THEN s1
        ELSE LET s2 == search_exe(e, f, s1.probed)
             IN  IF s2.found.some THEN s2
                 ELSE search_home(h, f, s2.probed)

\* the directories one walk examines when none is complete, in order
RECURSIVE probe_walk(_, _)
probe_walk(current, n) ==
    IF n = 0 THEN <<>>
    ELSE <<join(current, "params")>>
         \o (IF parent(current).some THEN probe_walk(parent(current).v, n - 1)
             ELSE <<>>)

\* the directories find_params_dir examines when none is complete, in order:
\* the paths come from the environment alone, the files are read one by one
probe_order(c, e, h) ==
    (IF c.some THEN <<join(c.v, "params")>> \o probe_walk(c.v, WalkDepth) ELSE <<>>)
    \o (IF e.some /\ parent(e.v).some THEN probe_walk(parent(e.v).v, WalkDepth)
        ELSE <<>>)
    \o (IF h.some THEN <<join(h.v, ".zcash-params")>> ELSE <<>>)

(***************************************************************************)
(* Strings, JSON values and unsigned 64-bit amounts                        *)
(***************************************************************************)
Ok(x) == [ok |-> TRUE, v |-> x]
Err(e) == [ok |-> FALSE, e |-> e]

DigitChars == <<"0", "1", "2", "3", "4", "5", "6", "7", "8", "9">>
IsDigit(c) == \E d \in 1..10 : DigitChars[d] = c
DigitVal(c) == (CHOOSE d \in 1..10 : DigitChars[d] = c) - 1

\* u64::MAX = 18446744073709551615
U64_MAX == <<1, 8, 4, 4, 6, 7, 4, 4, 0, 7, 3, 7, 0, 9, 5, 5, 1, 6, 1, 5>>
\* -i64::MIN = 9223372036854775808
I64_MIN_ABS == <<9, 2, 2, 3, 3, 7, 2, 0, 3, 6, 8, 5, 4, 7, 7, 5, 8, 0, 8>>

\* the digits of a number without its leading zeros; zero is <<0>>
RECURSIVE Canon(_)
Canon(d) == IF Len(d) > 1 /\ d[1] = 0 THEN Canon(Tail(d)) ELSE d

\* a > b, both canonical
RECURSIVE LexGreater(_, _)
LexGreater(a, b) ==
    IF a = <<>> THEN FALSE
    ELSE IF a[1] # b[1] THEN a[1] > b[1]
    ELSE LexGreater(Tail(a), Tail(b))

Greater(a, b) == Len(a) > Len(b) \/ (Len(a) = Len(b) /\ LexGreater(a, b))

\* parse_u64 with a fault: the value wraps instead of overflowing to an error
parse_u64_wrapping(s) ==
    IF s = <<>> THEN None
    ELSE IF Len(s) = 1 /\ s[1] \in {"+", "-"} THEN None
    ELSE LET digits == IF s[1] = "+" THEN Tail(s) ELSE s
         IN  IF \E i \in 1..Len(digits) : ~IsDigit(digits[i]) THEN None
             ELSE LET v == Canon([i \in 1..Len(digits) |-> DigitVal(digits[i])])
                  IN  IF Greater(v, U64_MAX) THEN Some(U64_MAX) ELSE Some(v)

\* s.parse::<u64>().ok(): an optional '+', then decimal digits, no overflow
parse_u64(s) ==
    IF s = <<>> THEN None
    ELSE IF Len(s) = 1 /\ s[1] \in {"+", "-"} THEN None
    ELSE LET digits == IF s[1] = "+" THEN Tail(s) ELSE s
         IN  IF \E i \in 1..Len(digits) : ~IsDigit(digits[i]) THEN None
             ELSE LET v == Canon([i \in 1..Len(digits) |-> DigitVal(digits[i])])
                  IN  IF Greater(v, U64_MAX) THEN None ELSE Some(v)

\* serde_json::Value
JString(s) == [t |-> "String", s |-> s]
JNumber(n) == [t |-> "Number", n |-> n]
JNull == [t |-> "Null"]
JObject(m) == [t |-> "Object", m |-> m]

\* serde_json::Number: PosInt(u64), NegInt(i64) or Float(f64)
PosInt(d) == [k |-> "PosInt", d |-> d]
NegInt(d) == [k |-> "NegInt", d |-> d]
Float == [k |-> "Float", d |-> <<>>]
\* no Number at all: the literal is refused ("number out of range") and the
\* body does not deserialize
OutOfRange == [k |-> "OutOfRange", d |-> <<>>]

\* the significand serde_json accumulates in a u64: the digits of the integer
\* part as long as the next one does not overflow u64::MAX; the digits left
\* over are dropped and counted into the exponent
significand_of(int) ==
    IF Len(int) <= 19 THEN int
    ELSE IF ~Greater(SubSeq(int, 1, 20), U64_MAX) THEN SubSeq(int, 1, 20)
    ELSE SubSeq(int, 1, 19)

\* POW10 holds the powers of ten up to this one
POW10_LAST == 308

\* for each power of ten that can do it, the least u64 significand f for which
\* (f as f64) * POW10[e] is infinite: both factors are rounded to an f64, so
\* these are not the digits of f64::MAX cut to length; below 1e289 no u64 is
\* large enough
INFINITE_FROM ==
    [e \in 289..POW10_LAST |->
       CASE e = 289 -> <<1,7,9,7,6,9,3,1,3,4,8,6,2,3,1,5,6,2,2,5>>
         [] e = 290 -> <<1,7,9,7,6,9,3,1,3,4,8,6,2,3,1,5,6,4,9>>
         [] e = 291 -> <<1,7,9,7,6,9,3,1,3,4,8,6,2,3,1,6,0,0>>
         [] e = 292 -> <<1,7,9,7,6,9,3,1,3,4,8,6,2,3,1,5,8>>
         [] e = 293 -> <<1,7,9,7,6,9,3,1,3,4,8,6,2,3,1,6>>
         [] e = 294 -> <<1,7,9,7,6,9,3,1,3,4,8,6,2,3,2>>
         [] e = 295 -> <<1,7,9,7,6,9,3,1,3,4,8,6,2,4>>
         [] e = 296 -> <<1,7,9,7,6,9,3,1,3,4,8,6,3>>
         [] e = 297 -> <<1,7,9,7,6,9,3,1,3,4,8,7>>
         [] e = 298 -> <<1,7,9,7,6,9,3,1,3,4,9>>
         [] e = 299 -> <<1,7,9,7,6,9,3,1,3,5>>
         [] e = 300 -> <<1,7,9,7,6,9,3,1,4>>
         [] e = 301 -> <<1,7,9,7,6,9,3,2>>
         [] e = 302 -> <<1,7,9,7,6,9,4>>
         [] e = 303 -> <<1,7,9,7,7,0>>
         [] e = 304 -> <<1,7,9,7,7>>
         [] e = 305 -> <<1,7,9,8>>
         [] e = 306 -> <<1,8,0>>
         [] e = 307 -> <<1,8>>
         [] e = 308 -> <<2>>]

\* the digits of a fraction enter the significand one by one as long as it
\* still fits a u64, each lowering the exponent by one; from the first that
\* does not fit they are dropped: [s: the significand, n: the digits taken]
RECURSIVE take_fraction(_, _)
take_fraction(significand, frac) ==
    IF frac = <<>> THEN [s |-> significand, n |-> 0]
    ELSE LET next == Canon(Append(significand, frac[1]))
         IN  IF Greater(next, U64_MAX) THEN [s |-> significand, n |-> 0]
             ELSE LET rest == take_fraction(next, Tail(frac))
                  IN  [s |-> rest.s, n |-> rest.n + 1]

\* f64_from_parts(significand, exponent) gives "number out of range": the
\* integer part int and the fraction frac are followed by the written
\* exponent (0 when none is); a zero stays zero, a power of ten beyond POW10
\* is refused, and so is a product that is infinite
overflows_f64(int, frac, exponent) ==
    LET whole == significand_of(int)
        taken == take_fraction(whole, frac)
        significand == taken.s
        e == ((Len(int) - Len(whole)) - taken.n) + exponent
    IN  /\ significand # <<0>>
        /\ \/ e > POW10_LAST
           \/ e \in DOMAIN INFINITE_FROM /\ ~Greater(INFINITE_FROM[e], significand)

\* a JSON numeric literal as the request body carries it:
\* [neg: a leading '-', int: the digits of the integer part, frac: the digits
\* after the point, << >> when there is none, exp: the exponent written after
\* 'e', << >> when there is none].  What serde_json makes of it in
\* ProofRequest.params
number_of(lit) ==
    IF overflows_f64(lit.int, lit.frac, IF lit.exp = <<>> THEN 0 ELSE lit.exp[1])
    THEN OutOfRange
    ELSE IF lit.exp # <<>> \/ lit.frac # <<>> THEN Float
    ELSE IF ~lit.neg
         THEN IF Greater(lit.int, U64_MAX) THEN Float ELSE PosInt(lit.int)
         ELSE IF lit.int = <<0>> \/ Greater(lit.int, I64_MIN_ABS)
              THEN Float ELSE NegInt(lit.int)

as_str(v) == IF v.t = "String" THEN Some(v.s) ELSE None
as_u64(v) == IF v.t = "Number" /\ v.n.k = "PosInt" THEN Some(v.n.d) ELSE None

\* Value::get(key): a member of an object, None for anything else
get(params, key) ==
    IF params.t = "Object" /\ key \in DOMAIN params.m
    THEN Some(params.m[key]) ELSE None

\* params.get("amount").and_then(|v| string: s.parse().ok(), number: as_u64)
amount_of(params) ==
    LET v == get(params, "amount")
    IN  IF ~v.some THEN None
        ELSE IF as_str(v.v).some THEN parse_u64(as_str(v.v).v)
        ELSE IF as_u64(v.v).some THEN as_u64(v.v)
        ELSE None

\* bytes of a character in UTF-8
utf8_len(c) == IF c = "U+00E9" THEN 2 ELSE IF c = "U+20AC" THEN 3 ELSE 1

\* String::len(): the length in bytes
RECURSIVE len(_)
len(s) == IF s = <<>> THEN 0 ELSE utf8_len(s[1]) + len(Tail(s))

(***************************************************************************)
(* generate_spend_proof, generate_output_proof                             *)
(***************************************************************************)
Message(parts) == [parts |-> parts, args |-> <<>>]

MISSING_KEY == "Missing spendingKey parameter"
MISSING_ADDRESS == "Missing toAddress parameter"
BAD_AMOUNT == "Missing or invalid amount parameter"
NEEDS_WITNESS == "Spend proof generation requires note commitment tree witness."
NEEDS_DECODING == "Output proof generation requires payment address decoding."
USE_LIGHTWALLETD == "SIMPLEST SOLUTION: Use lightwalletd's transaction building API"

\* generate_spend_proof with a fault: a placeholder proof instead of the error
generate_spend_proof_placeholder(params) ==
    LET spending_key == IF get(params, "spendingKey").some
                        THEN as_str(get(params, "spendingKey").v) ELSE None
    IN  IF ~spending_key.some THEN Err(Message(<<MISSING_KEY>>))
        ELSE LET amount == amount_of(params)
             IN  IF ~amount.some THEN Err(Message(<<BAD_AMOUNT>>))
                 ELSE Ok(<<0>>)

generate_spend_proof(params) ==
    LET spending_key == IF get(params, "spendingKey").some
                        THEN as_str(get(params, "spendingKey").v) ELSE None
    IN  IF ~spending_key.some THEN Err(Message(<<MISSING_KEY>>))
        ELSE LET amount == amount_of(params)
             IN  IF ~amount.some THEN Err(Message(<<BAD_AMOUNT>>))
                 ELSE Err([parts |-> <<NEEDS_WITNESS, USE_LIGHTWALLETD>>,
                           args |-> <<len(spending_key.v), amount.v>>])

\* generate_output_proof with a fault: the amount is examined before toAddress
generate_output_proof_amount_first(params) ==
    LET amount == amount_of(params)
    IN  IF ~amount.some THEN Err(Message(<<BAD_AMOUNT>>))
        ELSE LET to_address == IF get(params, "toAddress").some
                               THEN as_str(get(params, "toAddress").v) ELSE None
             IN  IF ~to_address.some THEN Err(Message(<<MISSING_ADDRESS>>))
                 ELSE Err([parts |-> <<NEEDS_DECODING, USE_LIGHTWALLETD>>,
                           args |-> <<to_address.v, amount.v>>])

\* generate_output_proof with a fault: a placeholder proof is returned
generate_output_proof_placeholder(params) ==
    LET to_address == IF get(params, "toAddress").some
                      THEN as_str(get(params, "toAddress").v) ELSE None
    IN  IF ~to_address.some THEN Err(Message(<<MISSING_ADDRESS>>))
        ELSE LET amount == amount_of(params)
             IN  IF ~amount.some THEN Err(Message(<<BAD_AMOUNT>>))
                 ELSE Ok(<<0>>)

generate_output_proof(params) ==
    LET to_address == IF get(params, "toAddress").some
                      THEN as_str(get(params, "toAddress").v) ELSE None
    IN  IF ~to_address.some THEN Err(Message(<<MISSING_ADDRESS>>))
        ELSE LET amount == amount_of(params)
             IN  IF ~amount.some THEN Err(Message(<<BAD_AMOUNT>>))
                 ELSE Err([parts |-> <<NEEDS_DECODING, USE_LIGHTWALLETD>>,
                           args |-> <<to_address.v, amount.v>>])

(***************************************************************************)
(* get_prover                                                              *)
(***************************************************************************)
\* the library can load a parameter file: it is there and it is valid
loadable(f, path) == path \in DOMAIN f /\ f[path] = "present"

\* LocalTxProver::new(spend_path, output_path) on files that do not change
\* while it runs: the prover, or a panic when a path does not point to a valid
\* parameter file
new_prover(f, spend_path, output_path) ==
    IF loadable(f, spend_path) /\ loadable(f, output_path)
    THEN Ok([spend |-> spend_path, output |-> output_path])
    ELSE Err("panic")

INIT_FAILED == "Prover initialization failed. This usually means the Groth16 proving parameters are not downloaded."
HINT_FOLDER == "1. Make sure parameters are in the 'params' folder at the project root"
HINT_DOWNLOAD == "2. Run: .\\scripts\\download-zcash-params.ps1"
HINT_RESTART == "3. Restart the proof service after downloading"

\* the report on one file of <cwd>/params
file_report(f, path, name) ==
    IF exists(f, path)
    THEN [parts |-> <<"exists: ">>, args |-> <<<<name>>>>]
    ELSE [parts |-> <<"Missing: ">>, args |-> <<path>>]

\* error_msg += ..: one message after another
Plus(m, n) == [parts |-> m.parts \o n.parts, args |-> m.args \o n.args]

\* the message as it starts: what was checked (lines 175-186)
init_error_head(c, e) ==
    LET m1 == IF c.some
              THEN [parts |-> <<"Current working directory: ", "Checked: ">>,
                    args |-> <<c.v, join(c.v, "params")>>]
              ELSE Message(<<>>)
        m2 == IF e.some
              THEN [parts |-> <<"Executable path: ">>, args |-> <<e.v>>]
              ELSE Message(<<>>)
    IN  Plus(Message(<<INIT_FAILED>>), Plus(m1, m2))

\* <cwd>/params is there (lines 192-193)
found_folder(local_params) ==
    [parts |-> <<"Found 'params' folder at: ", "Checking files:">>,
     args |-> <<local_params>>]

\* the end of the message (lines 218-221)
init_error_hints == Message(<<"To fix this:", HINT_FOLDER, HINT_DOWNLOAD, HINT_RESTART>>)

\* the error message get_prover builds when both resolutions fail, on files
\* that do not change while it is built (lines 173-224)
init_error(c, e, f) ==
    LET local_params == join(c.v, "params")
        m3 == IF c.some /\ exists(f, local_params)
              THEN Plus(found_folder(local_params),
                        Plus(file_report(f, join(local_params, SPEND_NAME), SPEND_NAME),
                             file_report(f, join(local_params, OUTPUT_NAME), OUTPUT_NAME)))
              ELSE Message(<<>>)
    IN  Plus(init_error_head(c, e), Plus(m3, init_error_hints))

\* get_prover as one function, on files that do not change while it runs
\* (lines 131-226): the prover, Err(message), or Err("panic") when the
\* library aborts
get_prover(c, e, h, dd, f) ==
    LET r == find_params_dir(c, e, h, f)
    IN  IF r.found.some
        THEN new_prover(f, join(r.found.v, SPEND_NAME), join(r.found.v, OUTPUT_NAME))
        ELSE IF exists(f, dd) /\ both_exist(f, dd)
        THEN new_prover(f, join(dd, SPEND_NAME), join(dd, OUTPUT_NAME))
        ELSE Err(init_error(c, e, f))

(***************************************************************************)
(* Responses                                                               *)
(***************************************************************************)
ProofResponse(status, proof, error) ==
    [status |-> status, proof |-> proof, error |-> error]

BuildTransactionResponse(status, raw_transaction, txid, error) ==
    [status |-> status, raw_transaction |-> raw_transaction, txid |-> txid,
     error |-> error]

Prefixed(prefix, e) == [parts |-> <<prefix>> \o e.parts, args |-> e.args]

\* route with a fault: an unknown type is a server fault
route_unknown_500(r, p) ==
    IF r.proof_type = "spend"
    THEN ProofResponse(500, <<>>,
            Some(Prefixed("Spend proof generation failed: ", generate_spend_proof(r.params).e)))
    ELSE IF r.proof_type = "output"
    THEN ProofResponse(500, <<>>,
            Some(Prefixed("Output proof generation failed: ", generate_output_proof(r.params).e)))
    ELSE ProofResponse(500, <<>>,
            Some([parts |-> <<"Invalid proof type: ">>, args |-> <<r.proof_type>>]))

\* route with a fault: the answer to an unknown type carries no error
route_no_error(r, p) ==
    IF r.proof_type = "spend"
    THEN ProofResponse(500, <<>>,
            Some(Prefixed("Spend proof generation failed: ", generate_spend_proof(r.params).e)))
    ELSE IF r.proof_type = "output"
    THEN ProofResponse(500, <<>>,
            Some(Prefixed("Output proof generation failed: ", generate_output_proof(r.params).e)))
    ELSE ProofResponse(400, <<>>, None)

\* match req.proof_type.as_str() { "spend", "output", _ }
route(r, p) ==
    IF r.proof_type = "spend"
    THEN LET g == generate_spend_proof(r.params)
         IN  IF g.ok THEN ProofResponse(200, g.v, None)
             ELSE ProofResponse(500, <<>>,
                    Some(Prefixed("Spend proof generation failed: ", g.e)))
    ELSE IF r.proof_type = "output"
    THEN LET g == generate_output_proof(r.params)
         IN  IF g.ok THEN ProofResponse(200, g.v, None)
             ELSE ProofResponse(500, <<>>,
                    Some(Prefixed("Output proof generation failed: ", g.e)))
    ELSE ProofResponse(400, <<>>,
            Some([parts |-> <<"Invalid proof type: ">>, args |-> <<r.proof_type>>]))

\* generate_proof_response with a fault: the type is matched before the result
\* of get_prover is looked at
generate_proof_response_type_first(r, p) ==
    IF r.proof_type \notin {"spend", "output"} THEN route(r, p)
    ELSE IF ~p.ok THEN ProofResponse(500, <<>>, Some(p.e))
    ELSE route(r, p.v)

\* generate_proof once get_prover has returned p
generate_proof_response(r, p) ==
    IF ~p.ok THEN ProofResponse(500, <<>>, Some(p.e))
    ELSE route(r, p.v)

\* build_transaction once get_prover has returned p
build_transaction_response(r, p) ==
    IF ~p.ok
    THEN BuildTransactionResponse(500, <<>>, None,
            Some(Prefixed("Prover initialization failed: ", p.e)))
    ELSE BuildTransactionResponse(501, <<>>, None,
            Some([parts |-> <<"Transaction building is being implemented.",
                              "Implementation in progress...">>,
                  args |-> <<len(r.spending_key), r.from_address, r.to_address,
                             r.amount, Len(r.memo)>>]))

\* s.is_char_boundary(n)
RECURSIVE is_char_boundary(_, _)
is_char_boundary(s, n) ==
    IF n = 0 THEN TRUE
    ELSE IF s = <<>> THEN FALSE
    ELSE IF utf8_len(s[1]) > n THEN FALSE
    ELSE is_char_boundary(Tail(s), n - utf8_len(s[1]))

\* the characters of the first n bytes of s, n a character boundary
RECURSIVE prefix_bytes(_, _)
prefix_bytes(s, n) ==
    IF n = 0 THEN <<>> ELSE <<s[1]>> \o prefix_bytes(Tail(s), n - utf8_len(s[1]))

\* &s[..n]: the slice, or a panic when n is inside a character
slice_to(s, n) ==
    IF is_char_boundary(s, n) THEN Ok(prefix_bytes(s, n)) ELSE Err("panic")

\* if s.is_empty() { "" } else { &s[..min(20, s.len())] }
preview_of(s) ==
    IF s = <<>> THEN Ok(<<>>)
    ELSE slice_to(s, IF PreviewLen < len(s) THEN PreviewLen ELSE len(s))

(***************************************************************************)
(* Environments and filesystems the model starts from                      *)
(***************************************************************************)
HomePath == <<"home">>
AppDataParams == <<"appdata", "ZcashParams">>

CwdChoices == {None} \cup {Some(Rep("p", k)) : k \in 0..MaxCwdDepth}

SharedPrefixes == {<<>>, <<"p">>}

ExeChoices ==
    {None} \cup {Some(s \o Rep("q", m) \o <<"bin">>) :
                    s \in SharedPrefixes, m \in 0..MaxExeDepth}

HomeChoices == {None, Some(HomePath)}

\* every prefix of a path, the path itself first
RECURSIVE Prefixes(_)
Prefixes(p) == IF p = <<>> THEN <<p>> ELSE <<p>> \o Prefixes(parent(p).v)

\* <a>/params for every a of a sequence of directories
ParamsOfAll(s) == [i \in 1..Len(s) |-> join(s[i], "params")]

\* the directories that may hold parameter files in an environment
DirUniverse(c, e, h, dd) ==
    (IF c.some THEN ParamsOfAll(Prefixes(c.v)) ELSE <<>>)
    \o (IF e.some /\ parent(e.v).some
        THEN ParamsOfAll(Prefixes(parent(e.v).v)) ELSE <<>>)
    \o (IF h.some THEN <<join(h.v, ".zcash-params")>> ELSE <<>>)
    \o <<dd>>

\* what a directory that exists holds: <<state of the spend file, state of the
\* output file>>; <<"absent", "absent">> is a directory with neither file (an
\* empty one, or one with other files only)
DirKinds ==
    { <<"present", "present">>, <<"present", "absent">>, <<"absent", "present">>,
      <<"denied", "present">>, <<"present", "denied">>, <<"corrupt", "present">>,
      <<"present", "corrupt">>,
      <<"absent", "absent">> }

Complete == <<"present", "present">>

\* the directory is not there at all
NoDir == <<>>

\* the entries of directory d when it holds k: the directory itself and its
\* files (an absent file has no entry)
FilesOfKind(d, k) ==
    IF k = NoDir THEN {}
    ELSE {d}
         \cup (IF k[1] = "absent" THEN {} ELSE {join(d, SPEND_NAME)})
         \cup (IF k[2] = "absent" THEN {} ELSE {join(d, OUTPUT_NAME)})

\* a filesystem in which directory d1 holds k1 and directory d2 holds k2; when
\* the two are the same directory it holds k2, or k1 when k2 is NoDir
MakeFs(d1, k1, d2, k2) ==
    [x \in FilesOfKind(d2, k2)
            \cup (IF d1 = d2 /\ k2 # NoDir THEN {} ELSE FilesOfKind(d1, k1)) |->
        IF x \in {d1, d2} THEN "dir"
        ELSE LET dir == SubSeq(x, 1, Len(x) - 1)
                 idx == IF x[Len(x)] = SPEND_NAME THEN 1 ELSE 2
             IN  IF dir = d2 /\ k2 # NoDir THEN k2[idx] ELSE k1[idx]]

NoRequest == [kind |-> "none"]
NoResponse == [status |-> 0]
NoCalls == [new |-> <<>>, default |-> <<>>]

\* a worker thread with no request in hand
IdleWorker ==
    [pc |-> "idle", req |-> NoRequest, params_dir |-> None, probed |-> <<>>,
     prover |-> None, error_msg |-> Message(<<>>), calls |-> NoCalls,
     resp |-> NoResponse, previews |-> <<>>, tx_state |-> "None"]

InitHandler ==
    /\ pc = "idle"
    /\ req = NoRequest
    /\ params_dir = None
    /\ probed = <<>>
    /\ prover = None
    /\ error_msg = Message(<<>>)
    /\ calls = NoCalls
    /\ resp = NoResponse
    /\ previews = <<>>
    /\ tx_state = "None"
    /\ ops = 0
    /\ failed_before = FALSE
    /\ other = IdleWorker

(***************************************************************************)
(* SpecLocate: find_params_dir applied to an environment and a filesystem  *)
(***************************************************************************)
InitLocate ==
    /\ current_dir \in CwdChoices
    /\ current_exe \in ExeChoices
    /\ home_dir \in HomeChoices
    /\ default_dir = AppDataParams
    /\ LET dirs == DirUniverse(current_dir, current_exe, home_dir, default_dir)
       IN  \E i \in 1..Len(dirs), k1 \in DirKinds \cup {NoDir} :
             \E j \in 1..Len(dirs), k2 \in {Complete, NoDir} :
               /\ (k2 = NoDir => (j = i /\ k1 # NoDir) \/ (i = 1 /\ j = 1))
               /\ (k2 # NoDir => (j # i /\ k1 # NoDir) \/ (j = i /\ k1 = NoDir))
               /\ fs = MakeFs(dirs[i], k1, dirs[j], k2)
    /\ InitHandler

Locate ==
    /\ pc = "idle"
    /\ LET r == find_params_dir(current_dir, current_exe, home_dir, fs)
       IN  /\ params_dir' = r.found
           /\ probed' = r.probed
    /\ pc' = "located"
    /\ UNCHANGED <<current_dir, current_exe, home_dir, default_dir, fs, req,
                   prover, error_msg, calls, resp, previews, tx_state, ops,
                   failed_before, other>>

NextLocate == Locate

SpecLocate == InitLocate /\ [][NextLocate]_vars

(***************************************************************************)
(* The handlers, step by step                                              *)
(*   pc: "idle" -> "get_prover" <-> "probe_output" -> "verify" ->          *)
(*       "verify_output" -> "construct" -> "construct_output" -> "respond"  *)
(*       "get_prover" -> "default" -> "default_spend" -> "default_output"  *)
(*       -> "default_new" -> "default_new_output" -> "respond"             *)
(*       "default.." -> "init_error" -> "report_spend" ->                  *)
(*       "report_output" -> "respond"                                      *)
(*       -> "done", or "panicked" when the handler aborts; -> "idle"       *)
(***************************************************************************)
Env == <<current_dir, current_exe, home_dir, default_dir, fs>>

\* what no handler writes: the environment, the files, the operator's count,
\* the history and the request of the other worker (the program has no
\* static, no cache and no file write)
World == <<Env, ops, failed_before, other>>

Free == pc = "idle"

Accept(r) ==
    /\ req' = r
    /\ params_dir' = None
    /\ probed' = <<>>
    /\ prover' = None
    /\ error_msg' = Message(<<>>)
    /\ calls' = NoCalls
    /\ resp' = NoResponse

\* the requests /proofs/generate is given
ProofTypes == {"spend", "output", "bogus"}

KeyValues == {JString(<<"s", "k">>), JNumber(PosInt(<<7>>))}
AddressValues == {JString(<<"z", "s">>)}
AmountValues ==
    { JString(<<"1", "0", "0", "0">>), JNumber(PosInt(<<1, 0, 0, 0>>)),
      JString(<<"a", "b", "c">>) }

Optional(S) == {None} \cup {Some(x) : x \in S}

\* the object with the members that are given
ObjectOf(k, a, m) ==
    JObject([name \in (IF k.some THEN {"spendingKey"} ELSE {})
                      \cup (IF a.some THEN {"toAddress"} ELSE {})
                      \cup (IF m.some THEN {"amount"} ELSE {}) |->
                IF name = "spendingKey" THEN k.v
                ELSE IF name = "toAddress" THEN a.v ELSE m.v])

ParamsBags ==
    {JNull} \cup {ObjectOf(k, a, m) : k \in Optional(KeyValues),
                                       a \in Optional(AddressValues),
                                       m \in Optional(AmountValues)}

ProofRequests ==
    {[kind |-> "generate", proof_type |-> t, params |-> b] :
        t \in ProofTypes, b \in ParamsBags}

\* the requests /proofs/build-transaction is given
FromAddresses ==
    {Rep("a", n) : n \in {0, 1, PreviewLen - 1, PreviewLen, PreviewLen + 1}}
    \cup {Rep("a", PreviewLen - 1) \o <<"U+00E9">>,
          Rep("a", PreviewLen - 2) \o <<"U+00E9">>,
          <<"U+00E9">>}

ToAddresses ==
    {<<>>, Rep("a", PreviewLen + 1), Rep("a", PreviewLen - 2) \o <<"U+20AC">>}

BuildRequests ==
    {[kind |-> "build", spending_key |-> <<"s", "k">>, from_address |-> f,
      to_address |-> t, amount |-> <<"1", "0", "0", "0">>, memo |-> <<>>] :
        f \in FromAddresses, t \in ToAddresses}

\* generate_proof is entered with one of the requests R (lines 228-233)
ReceiveGenerateOf(R) ==
    /\ Free
    /\ \E r \in R : Accept(r)
    /\ previews' = <<>>
    /\ tx_state' = "None"
    /\ pc' = "get_prover"
    /\ UNCHANGED World

ReceiveGenerate == ReceiveGenerateOf(ProofRequests)

\* build_transaction is entered with one of the requests R: the previews are
\* sliced (lines 396-418)
ReceiveBuildOf(R) ==
    /\ Free
    /\ \E r \in R :
         /\ Accept(r)
         /\ LET from_preview == preview_of(r.from_address)
                to_preview == preview_of(r.to_address)
            IN  IF ~from_preview.ok
                THEN /\ previews' = <<>>
                     /\ pc' = "panicked"
                ELSE IF ~to_preview.ok
                THEN /\ previews' = <<>>
                     /\ pc' = "panicked"
                ELSE /\ previews' = <<from_preview.v, to_preview.v>>
                     /\ pc' = "get_prover"
    /\ tx_state' = "ReceivedRequest"
    /\ UNCHANGED World

ReceiveBuild == ReceiveBuildOf(BuildRequests)

\* FindParams with a fault: a failure is remembered, and get_prover fails
\* from then on without looking at the files
FindParams_poisoned ==
    /\ pc = "get_prover"
    /\ LET order == probe_order(current_dir, current_exe, home_dir)
           i == Len(probed) + 1
       IN  IF failed_before
           THEN /\ prover' = Some(Err(Message(<<INIT_FAILED>>)))
                /\ pc' = "respond"
                /\ UNCHANGED <<params_dir, probed>>
           ELSE IF i > Len(order)
           THEN /\ pc' = "default"
                /\ UNCHANGED <<params_dir, probed, prover>>
           ELSE /\ probed' = Append(probed, order[i])
                /\ pc' = IF exists(fs, join(order[i], SPEND_NAME))
                         THEN "probe_output" ELSE "get_prover"
                /\ UNCHANGED <<params_dir, prover>>
    /\ UNCHANGED <<World, error_msg, req, calls, resp, previews, tx_state>>

\* get_prover: let params_dir = find_params_dir() (line 133), one candidate at
\* a time: the next directory of the order is taken and its spend file is
\* looked up (lines 58-61, 69-74, 93-99, 116-120); None when the order is
\* exhausted (line 127)
FindParams ==
    /\ pc = "get_prover"
    /\ LET order == probe_order(current_dir, current_exe, home_dir)
           i == Len(probed) + 1
       IN  IF i > Len(order)
           THEN /\ pc' = "default"
                /\ probed' = probed
           ELSE /\ probed' = Append(probed, order[i])
                /\ pc' = IF exists(fs, join(order[i], SPEND_NAME))
                         THEN "probe_output" ELSE "get_prover"
    /\ UNCHANGED <<World, error_msg, req, params_dir, prover, calls, resp, previews, tx_state>>

\* ProbeOutput with a fault: the library default is tried whatever was found
ProbeOutput_default_always ==
    /\ pc = "probe_output"
    /\ LET d == probed[Len(probed)]
       IN  IF exists(fs, join(d, OUTPUT_NAME))
           THEN /\ params_dir' = Some(d)
                /\ pc' = "default"
           ELSE /\ params_dir' = params_dir
                /\ pc' = "get_prover"
    /\ UNCHANGED <<World, error_msg, req, probed, prover, calls, resp, previews, tx_state>>

\* find_params_dir: the spend file of the candidate exists, its output file is
\* looked up (the right side of && at lines 61, 74, 99, 120); the candidate is
\* returned when it exists too
ProbeOutput ==
    /\ pc = "probe_output"
    /\ LET d == probed[Len(probed)]
       IN  IF exists(fs, join(d, OUTPUT_NAME))
           THEN /\ params_dir' = Some(d)
                /\ pc' = "verify"
           ELSE /\ params_dir' = params_dir
                /\ pc' = "get_prover"
    /\ UNCHANGED <<World, error_msg, req, probed, prover, calls, resp, previews, tx_state>>

\* get_prover: the spend file is checked again (lines 137-143)
VerifyFiles ==
    /\ pc = "verify"
    /\ LET spend_path == join(params_dir.v, SPEND_NAME)
       IN  IF ~exists(fs, spend_path)
           THEN /\ prover' = Some(Err([parts |-> <<"Parameter file not found: ">>,
                                       args |-> <<spend_path>>]))
                /\ pc' = "respond"
           ELSE /\ prover' = prover
                /\ pc' = "verify_output"
    /\ UNCHANGED <<World, error_msg, req, params_dir, probed, calls, resp, previews, tx_state>>

\* get_prover: the output file is checked again (lines 144-146)
VerifyOutput ==
    /\ pc = "verify_output"
    /\ LET output_path == join(params_dir.v, OUTPUT_NAME)
       IN  IF ~exists(fs, output_path)
           THEN /\ prover' = Some(Err([parts |-> <<"Parameter file not found: ">>,
                                       args |-> <<output_path>>]))
                /\ pc' = "respond"
           ELSE /\ prover' = prover
                /\ pc' = "construct"
    /\ UNCHANGED <<World, error_msg, req, params_dir, probed, calls, resp, previews, tx_state>>

\* get_prover: LocalTxProver::new(&spend_path, &output_path) is called (lines
\* 159-161); the library reads the spend file first, and aborts when it is
\* not a valid parameter file
Construct ==
    /\ pc = "construct"
    /\ LET spend_path == join(params_dir.v, SPEND_NAME)
           output_path == join(params_dir.v, OUTPUT_NAME)
       IN  /\ calls' = [calls EXCEPT !.new = Append(@, <<spend_path, output_path>>)]
           /\ pc' = IF loadable(fs, spend_path) THEN "construct_output" ELSE "panicked"
    /\ UNCHANGED <<World, error_msg, req, params_dir, probed, prover, resp, previews, tx_state>>

\* LocalTxProver::new: the library reads the output file; Ok(prover) (lines
\* 161-163), or its panic
ConstructOutput ==
    /\ pc = "construct_output"
    /\ LET spend_path == join(params_dir.v, SPEND_NAME)
           output_path == join(params_dir.v, OUTPUT_NAME)
       IN  IF loadable(fs, output_path)
           THEN /\ prover' = Some(Ok([spend |-> spend_path, output |-> output_path]))
                /\ pc' = "respond"
           ELSE /\ prover' = prover
                /\ pc' = "panicked"
    /\ UNCHANGED <<World, error_msg, req, params_dir, probed, calls, resp, previews, tx_state>>

\* get_prover: LocalTxProver::with_default_location() is called (lines
\* 166-168); the library looks up its own folder
DefaultLocation ==
    /\ pc = "default"
    /\ calls' = [calls EXCEPT !.default = Append(@, default_dir)]
    /\ pc' = IF exists(fs, default_dir) THEN "default_spend" ELSE "init_error"
    /\ UNCHANGED <<World, error_msg, req, params_dir, probed, prover, resp, previews, tx_state>>

\* with_default_location: the spend file of the library's folder is looked up
DefaultSpend ==
    /\ pc = "default_spend"
    /\ pc' = IF exists(fs, join(default_dir, SPEND_NAME))
             THEN "default_output" ELSE "init_error"
    /\ UNCHANGED <<World, error_msg, req, params_dir, probed, prover, calls, resp, previews, tx_state>>

\* with_default_location: the output file of the library's folder is looked
\* up; None (line 173) when a file is not there
DefaultOutput ==
    /\ pc = "default_output"
    /\ pc' = IF exists(fs, join(default_dir, OUTPUT_NAME))
             THEN "default_new" ELSE "init_error"
    /\ UNCHANGED <<World, error_msg, req, params_dir, probed, prover, calls, resp, previews, tx_state>>

\* with_default_location: both files were found and the library calls new on
\* them; it reads the spend file first, and aborts when it is not valid
DefaultNew ==
    /\ pc = "default_new"
    /\ pc' = IF loadable(fs, join(default_dir, SPEND_NAME))
             THEN "default_new_output" ELSE "panicked"
    /\ UNCHANGED <<World, error_msg, req, params_dir, probed, prover, calls, resp, previews, tx_state>>

\* with_default_location: new reads the output file; Some(prover) (lines
\* 169-172), or its panic
DefaultNewOutput ==
    /\ pc = "default_new_output"
    /\ IF loadable(fs, join(default_dir, OUTPUT_NAME))
       THEN /\ prover' = Some(Ok([spend |-> join(default_dir, SPEND_NAME),
                                  output |-> join(default_dir, OUTPUT_NAME)]))
            /\ pc' = "respond"
       ELSE /\ prover' = prover
            /\ pc' = "panicked"
    /\ UNCHANGED <<World, error_msg, req, params_dir, probed, calls, resp, previews, tx_state>>

\* get_prover: the library gave None; the error message is started and
\* <cwd>/params is looked up (lines 173-193)
InitError ==
    /\ pc = "init_error"
    /\ LET head == init_error_head(current_dir, current_exe)
           local_params == join(current_dir.v, "params")
       IN  IF current_dir.some /\ exists(fs, local_params)
           THEN /\ error_msg' = Plus(head, found_folder(local_params))
                /\ prover' = prover
                /\ pc' = "report_spend"
           ELSE /\ error_msg' = Plus(head, init_error_hints)
                /\ prover' = Some(Err(error_msg'))
                /\ pc' = "respond"
    /\ UNCHANGED <<World, req, params_dir, probed, calls, resp, previews, tx_state>>

\* get_prover: the spend file of <cwd>/params is looked up and reported
\* (lines 195-205)
ReportSpend ==
    /\ pc = "report_spend"
    /\ LET local_params == join(current_dir.v, "params")
       IN  error_msg' = Plus(error_msg,
                             file_report(fs, join(local_params, SPEND_NAME), SPEND_NAME))
    /\ pc' = "report_output"
    /\ UNCHANGED <<World, req, params_dir, probed, prover, calls, resp, previews, tx_state>>

\* get_prover: the output file of <cwd>/params is looked up and reported, and
\* Err(error_msg) is returned (lines 196, 207-223)
ReportOutput ==
    /\ pc = "report_output"
    /\ LET local_params == join(current_dir.v, "params")
       IN  error_msg' = Plus(Plus(error_msg,
                                  file_report(fs, join(local_params, OUTPUT_NAME), OUTPUT_NAME)),
                             init_error_hints)
    /\ prover' = Some(Err(error_msg'))
    /\ pc' = "respond"
    /\ UNCHANGED <<World, req, params_dir, probed, calls, resp, previews, tx_state>>

\* generate_proof after get_prover (lines 233-290)
RespondGenerate ==
    /\ pc = "respond"
    /\ req.kind = "generate"
    /\ resp' = generate_proof_response(req, prover.v)
    /\ pc' = "done"
    /\ UNCHANGED <<World, error_msg, req, params_dir, probed, prover, calls, previews, tx_state>>

\* build_transaction after get_prover (lines 418-470)
RespondBuild ==
    /\ pc = "respond"
    /\ req.kind = "build"
    /\ resp' = build_transaction_response(req, prover.v)
    /\ tx_state' = IF prover.v.ok THEN "ProverAcquired" ELSE tx_state
    /\ pc' = "done"
    /\ UNCHANGED <<World, error_msg, req, params_dir, probed, prover, calls, previews>>

\* HttpResponse::Ok().json("OK") (line 495)
health_response == [status |-> 200, body |-> JString(<<"O", "K">>)]

\* Health with a fault: the parameters are looked up, and 503 is answered when
\* no directory holds them
Health_probing ==
    /\ Free
    /\ req' = [kind |-> "health"]
    /\ LET r == find_params_dir(current_dir, current_exe, home_dir, fs)
       IN  /\ probed' = r.probed
           /\ resp' = IF r.found.some THEN health_response
                      ELSE [status |-> 503, body |-> JString(<<"K", "O">>)]
    /\ pc' = "done"
    /\ UNCHANGED <<World, error_msg, params_dir, prover, calls, previews, tx_state>>

\* GET /health: the closure of the route (line 495)
Health ==
    /\ Free
    /\ req' = [kind |-> "health"]
    /\ resp' = health_response
    /\ pc' = "done"
    /\ UNCHANGED <<World, error_msg, params_dir, probed, prover, calls, previews, tx_state>>

\* the handler's future ends, with its response or by its panic; the worker
\* takes the next request (lines 491-495)
Return ==
    /\ pc \in {"done", "panicked"}
    /\ pc' = "idle"
    /\ req' = NoRequest
    /\ params_dir' = None
    /\ probed' = <<>>
    /\ prover' = None
    /\ error_msg' = Message(<<>>)
    /\ calls' = NoCalls
    /\ resp' = NoResponse
    /\ previews' = <<>>
    /\ tx_state' = "None"
    /\ failed_before' = (failed_before
                          \/ (prover.some /\ ~prover.v.ok)
                          \/ (pc = "panicked" /\ calls # NoCalls))
    /\ UNCHANGED <<Env, ops, other>>

(***************************************************************************)
(* Spec: the service handling one request after another                    *)
(***************************************************************************)
ServiceCwd == {None, Some(<<"p">>)}
ServiceExe == Some(<<"q", "bin">>)
ServiceDefaults == {join(HomePath, ".zcash-params"), AppDataParams}

Init ==
    /\ current_dir \in ServiceCwd
    /\ current_exe = ServiceExe
    /\ home_dir = Some(HomePath)
    /\ default_dir \in ServiceDefaults
    /\ LET dirs == DirUniverse(current_dir, current_exe, home_dir, default_dir)
       IN  \E i \in 1..Len(dirs), k1 \in DirKinds \cup {NoDir} :
             \E j \in 1..Len(dirs), k2 \in {Complete, NoDir} :
               /\ (k2 = NoDir => (j = i /\ k1 # NoDir) \/ (i = 1 /\ j = 1))
               /\ (k2 # NoDir => (j # i /\ k1 # NoDir) \/ (j = i /\ k1 = NoDir))
               /\ fs = MakeFs(dirs[i], k1, dirs[j], k2)
    /\ InitHandler

Next ==
    \/ ReceiveGenerate
    \/ ReceiveBuild
    \/ FindParams
    \/ ProbeOutput
    \/ VerifyFiles
    \/ VerifyOutput
    \/ Construct
    \/ ConstructOutput
    \/ DefaultLocation
    \/ DefaultSpend
    \/ DefaultOutput
    \/ DefaultNew
    \/ DefaultNewOutput
    \/ InitError
    \/ ReportSpend
    \/ ReportOutput
    \/ RespondGenerate
    \/ RespondBuild
    \/ Health
    \/ Return

Spec == Init /\ [][Next]_vars

(***************************************************************************)
(* SpecParse: the amount of a request, for every encoding tried, once the  *)
(* prover is in hand                                                       *)
(***************************************************************************)
\* 2^64 and 10^20
U64_OVER == <<1, 8, 4, 4, 6, 7, 4, 4, 0, 7, 3, 7, 0, 9, 5, 5, 1, 6, 1, 6>>
TEN_POW_20 == <<1>> \o Rep(0, 20)

ToChars(d) == [i \in 1..Len(d) |-> DigitChars[d[i] + 1]]

ParseAlphabet == {"0", "1", "9", "+", "-", "a", " ", "."}

AmountStrings ==
    UNION {[1..n -> ParseAlphabet] : n \in 0..MaxStrLen}
    \cup { ToChars(U64_MAX), ToChars(U64_OVER), ToChars(TEN_POW_20),
           <<"+">> \o ToChars(U64_MAX), <<"+">> \o ToChars(U64_OVER),
           <<"0">> \o ToChars(U64_MAX), <<"-">> \o ToChars(U64_MAX),
           ToChars(I64_MIN_ABS) }

\* integers around f64::MAX = 1.7976931348623157e308: 10^308 written out (309
\* digits, finite), 309 nines and 10^309 (310 digits), both infinite
TEN_POW_308 == <<1>> \o Rep(0, 308)
NINES_309 == Rep(9, 309)
TEN_POW_309 == <<1>> \o Rep(0, 309)

\* significands that multiply to the neighbourhood of f64::MAX
F64_EDGE ==
    { <<1,7,9,7,6,9,3,1,3,4,8,6,2,3,1,5,7>>,
      <<1,7,9,7,6,9,3,1,3,4,8,6,2,3,1,5,8>>,
      <<1,7,9,7,6,9,3,1,3,4,8,6,2,3,1,5,8,0>>,
      <<1,7,9,7,6,9,3,1,3,4,8,6,2,3,1,5,7,0,0>> }

AmountIntegers ==
    {Canon(d) : d \in UNION {[1..n -> {0, 1, 9}] : n \in 1..MaxStrLen}}
    \cup {U64_MAX, U64_OVER, TEN_POW_20, I64_MIN_ABS}
    \cup {TEN_POW_308, NINES_309, TEN_POW_309} \cup F64_EDGE

\* no fraction, .0, .5, .9 and a fraction longer than a u64 has room for
AmountFractions == {<<>>, <<0>>, <<5>>, <<9>>, Rep(9, 21)}

\* no exponent, e-1, e0, e290..e292 (where the edge significands sit), e307,
\* e308 (the last power of ten an f64 holds), e309, e400
AmountExponents ==
    {<<>>, <<-1>>, <<0>>, <<290>>, <<291>>, <<292>>, <<307>>, <<308>>, <<309>>,
     <<400>>}

AmountLiterals ==
    {[neg |-> g, int |-> d, frac |-> f, exp |-> x] :
        g \in BOOLEAN, d \in AmountIntegers, f \in AmountFractions,
        x \in AmountExponents}

\* the amount member as the body of the request carries it
RawAmounts ==
    {[form |-> "string", s |-> x] : x \in AmountStrings}
    \cup {[form |-> "number", lit |-> x] : x \in AmountLiterals}

\* the serde_json::Value the handler is given for a member of the body
value_of(raw) ==
    IF raw.form = "string" THEN JString(raw.s) ELSE JNumber(number_of(raw.lit))

\* web::Json<ProofRequest>: the body deserializes, and the handler is entered
deserializes(raw) ==
    raw.form = "string" \/ number_of(raw.lit) # OutOfRange

ParseDir == <<"p", "params">>

ParseRequests ==
    {[kind |-> "generate", proof_type |-> t,
      params |-> ObjectOf(Some(JString(<<"s", "k">>)), Some(JString(<<"z", "s">>)),
                          Some(value_of(raw))),
      raw |-> raw] :
        t \in {"spend", "output"}, raw \in {x \in RawAmounts : deserializes(x)}}

InitParse ==
    /\ current_dir = Some(<<"p">>)
    /\ current_exe = ServiceExe
    /\ home_dir = Some(HomePath)
    /\ default_dir = AppDataParams
    /\ fs = MakeFs(ParseDir, Complete, ParseDir, Complete)
    /\ pc = "respond"
    /\ req \in ParseRequests
    /\ params_dir = Some(ParseDir)
    /\ probed = <<ParseDir>>
    /\ prover = Some(new_prover(fs, join(ParseDir, SPEND_NAME), join(ParseDir, OUTPUT_NAME)))
    /\ error_msg = Message(<<>>)
    /\ calls = [new |-> <<<<join(ParseDir, SPEND_NAME), join(ParseDir, OUTPUT_NAME)>>>>,
                default |-> <<>>]
    /\ resp = NoResponse
    /\ previews = <<>>
    /\ tx_state = "None"
    /\ ops = 0
    /\ failed_before = FALSE
    /\ other = IdleWorker

NextParse == RespondGenerate

SpecParse == InitParse /\ [][NextParse]_vars

(***************************************************************************)
(* The candidate order, stated from the environment alone                  *)
(***************************************************************************)
Min(a, b) == IF a < b THEN a ELSE b

\* the k-th ancestor of a path, 0 < k <= Len(p)
Ancestor(p, k) == SubSeq(p, 1, Len(p) - k)

\* (1) <cwd>/params
CwdCandidate ==
    IF current_dir.some THEN <<join(current_dir.v, "params")>> ELSE <<>>

\* (2) params under the ancestors of cwd the walk reaches, nearest first
CwdAncestorCandidates ==
    IF current_dir.some
    THEN [k \in 1..Min(WalkDepth - 1, Len(current_dir.v)) |->
            join(Ancestor(current_dir.v, k), "params")]
    ELSE <<>>

\* (3) params under the ancestors of the executable's path the walk reaches
ExeAncestorCandidates ==
    IF current_exe.some
    THEN [k \in 1..Min(WalkDepth, Len(current_exe.v)) |->
            join(Ancestor(current_exe.v, k), "params")]
    ELSE <<>>

\* (4) <home>/.zcash-params
HomeCandidate ==
    IF home_dir.some THEN <<join(home_dir.v, ".zcash-params")>> ELSE <<>>

CandidateOrder ==
    CwdCandidate \o CwdAncestorCandidates \o ExeAncestorCandidates \o HomeCandidate

OnDisk(file) == file \in DOMAIN fs /\ fs[file] \in {"present", "corrupt"}
HoldsSpend(d) == OnDisk(join(d, SPEND_NAME))
HoldsOutput(d) == OnDisk(join(d, OUTPUT_NAME))
HoldsBoth(d) == HoldsSpend(d) /\ HoldsOutput(d)
HoldsOne(d) == HoldsSpend(d) # HoldsOutput(d)

CompleteAt == {i \in 1..Len(CandidateOrder) : HoldsBoth(CandidateOrder[i])}
FirstComplete == CHOOSE i \in CompleteAt : \A j \in CompleteAt : i <= j

InSeq(x, s) == \E i \in 1..Len(s) : s[i] = x

(***************************************************************************)
(* Claims about find_params_dir, checked under SpecLocate                  *)
(***************************************************************************)
\* C1: find_params_dir returns exactly the earliest complete candidate in the
\* order <cwd>/params, ancestors of cwd, ancestors of the executable,
\* <home>/.zcash-params (the ancestors being those within the walk), and it
\* returns None only when no candidate is complete.
C1_Ordering ==
    pc = "located" =>
        IF CompleteAt = {}
        THEN params_dir = None
        ELSE params_dir = Some(CandidateOrder[FirstComplete])

\* two complete candidates, the earlier one not the first of the order, and the
\* earlier one is returned
C1_Witness ==
    /\ pc = "located"
    /\ \E i, j \in CompleteAt :
         /\ 1 < i /\ i < j
         /\ CandidateOrder[i] # CandidateOrder[j]
         /\ params_dir = Some(CandidateOrder[i])

\* C2: find_params_dir never returns a directory that holds only one of the two
\* files, and a partial candidate does not stop the search: a complete candidate
\* after it is still returned.
C2_NoPartialMatch ==
    pc = "located" =>
        /\ params_dir.some =>
             /\ HoldsSpend(params_dir.v) /\ HoldsOutput(params_dir.v)
             /\ InSeq(params_dir.v, CandidateOrder)
        /\ \A i, j \in 1..Len(CandidateOrder) :
             (i < j /\ HoldsOne(CandidateOrder[i]) /\ HoldsBoth(CandidateOrder[j]))
                => /\ params_dir.some
                   /\ ~HoldsOne(params_dir.v)

\* a partial candidate precedes the complete one that is returned
C2_Witness ==
    /\ pc = "located"
    /\ \E i, j \in 1..Len(CandidateOrder) :
         /\ i < j
         /\ HoldsOne(CandidateOrder[i])
         /\ params_dir = Some(CandidateOrder[j])

\* C9: whatever lookups fail (cwd, executable path, home directory, an
\* existence check), find_params_dir ends with Some or None; a failed check
\* counts as "not found"; the candidates of the lookups that did succeed are
\* still examined, up to the one that is returned.
LookupFailed ==
    \/ ~current_dir.some \/ ~current_exe.some \/ ~home_dir.some
    \/ \E file \in DOMAIN fs : fs[file] = "denied"

HasDenied(d) ==
    \E n \in {SPEND_NAME, OUTPUT_NAME} :
        join(d, n) \in DOMAIN fs /\ fs[join(d, n)] = "denied"

C9_Resilience ==
    (pc = "located" /\ LookupFailed) =>
        /\ params_dir = None \/ (params_dir.some /\ InSeq(params_dir.v, CandidateOrder))
        /\ params_dir.some => ~HasDenied(params_dir.v)
        /\ \A i \in 1..Len(CandidateOrder) :
             (\A j \in 1..(i - 1) : ~HoldsBoth(CandidateOrder[j]))
                => InSeq(CandidateOrder[i], probed)
        /\ \A i \in 1..Len(probed) : InSeq(probed[i], CandidateOrder)
        /\ (CompleteAt # {}) => params_dir.some

\* cwd is unavailable, a candidate of the executable walk has a file whose
\* check fails, and the search still reaches <home>/.zcash-params
C9_Witness ==
    /\ pc = "located"
    /\ ~current_dir.some
    /\ \E i \in 1..Len(ExeAncestorCandidates) : HasDenied(ExeAncestorCandidates[i])
    /\ home_dir.some
    /\ params_dir = Some(join(home_dir.v, ".zcash-params"))

(***************************************************************************)
(* Claims about the amount, checked under SpecParse                        *)
(***************************************************************************)
\* a non-empty string of decimal digits
IsUnsignedDecimal(s) == s # <<>> /\ \A i \in 1..Len(s) : IsDigit(s[i])
DecimalValue(s) == Canon([i \in 1..Len(s) |-> DigitVal(s[i])])
InU64(d) == ~Greater(d, U64_MAX)

\* the request passed the amount extraction: the limitation error is the answer
AmountAccepted ==
    /\ resp.error.some
    /\ InSeq(NEEDS_WITNESS, resp.error.v.parts) \/ InSeq(NEEDS_DECODING, resp.error.v.parts)
AmountRejected == resp.error.some /\ InSeq(BAD_AMOUNT, resp.error.v.parts)
AcceptedAmount == resp.error.v.args[2]

\* the raw amount is an unsigned decimal integer of 0..2^64-1
PlainString == req.raw.form = "string" /\ IsUnsignedDecimal(req.raw.s)
                    /\ InU64(DecimalValue(req.raw.s))
PlusString == req.raw.form = "string" /\ req.raw.s # <<>> /\ req.raw.s[1] = "+"
                    /\ IsUnsignedDecimal(Tail(req.raw.s))
                    /\ InU64(DecimalValue(Tail(req.raw.s)))
PlainNumber == req.raw.form = "number" /\ ~req.raw.lit.neg /\ req.raw.lit.frac = <<>>
                    /\ req.raw.lit.exp = <<>> /\ InU64(req.raw.lit.int)
RawValue ==
    IF req.raw.form = "number" THEN req.raw.lit.int
    ELSE IF req.raw.s[1] = "+" THEN DecimalValue(Tail(req.raw.s))
    ELSE DecimalValue(req.raw.s)

\* C6 as stated: a number n and the decimal string of n give the same amount,
\* negative, non-numeric and overflowing values are rejected, and nothing but an
\* unsigned decimal integer in range is accepted.
C6_Original ==
    pc = "done" =>
        /\ AmountAccepted \/ AmountRejected
        /\ AmountAccepted <=> (PlainString \/ PlainNumber)
        /\ AmountAccepted => AcceptedAmount = RawValue

\* C6 amended: as C6_Original, except that a string may carry one leading '+'.
C6_AmountParsing ==
    pc = "done" =>
        /\ AmountAccepted \/ AmountRejected
        /\ AmountAccepted <=> (PlainString \/ PlusString \/ PlainNumber)
        /\ AmountAccepted => AcceptedAmount = RawValue

\* the string "18446744073709551615" is accepted as 2^64-1 by the output branch
C6_Witness ==
    /\ pc = "done"
    /\ req.proof_type = "output"
    /\ req.raw.form = "string"
    /\ req.raw.s = ToChars(U64_MAX)
    /\ AmountAccepted
    /\ AcceptedAmount = U64_MAX

(***************************************************************************)
(* Claims about the handlers, checked under Spec                           *)
(***************************************************************************)
Generated == pc = "done" /\ req.kind = "generate"
UnknownType == req.proof_type \notin {"spend", "output"}
ProverAcquired == prover.some /\ prover.v.ok
NamesType(e) == InSeq("Invalid proof type: ", e.parts) /\ InSeq(req.proof_type, e.args)

\* C3 as stated: a request of unknown type is answered 400 with an error
\* naming the type, whatever the parameters on disk, and neither get_prover nor
\* a probe of a parameter file is performed for it.
C3_Original ==
    (Generated /\ UnknownType) =>
        /\ resp.status = 400
        /\ resp.error.some /\ NamesType(resp.error.v)
        /\ ~prover.some /\ probed = <<>> /\ calls = NoCalls

\* C3 amended: for a request of unknown type get_prover is run first, as for any
\* other request; when it yields a prover the answer is 400 with an error naming
\* the type, and when it fails the answer is 500 with the error of get_prover.
C3_UnknownKind ==
    (Generated /\ UnknownType) =>
        /\ prover.some
        /\ prover.v.ok =>
             /\ resp.status = 400
             /\ resp.error.some /\ NamesType(resp.error.v)
             /\ resp.proof = <<>>
        /\ ~prover.v.ok =>
             /\ resp.status = 500
             /\ resp.error = Some(prover.v.e)
             /\ resp.proof = <<>>

\* an unknown type answered 400 after the parameters were probed and loaded
C3_Witness ==
    /\ Generated /\ UnknownType
    /\ ProverAcquired
    /\ probed # <<>> /\ calls.new # <<>>
    /\ resp.status = 400

HasStringKey ==
    get(req.params, "spendingKey").some /\ get(req.params, "spendingKey").v.t = "String"
HasStringAddress ==
    get(req.params, "toAddress").some /\ get(req.params, "toAddress").v.t = "String"

\* the amount member is a number of 0..2^64-1 or the decimal string of one
HasValidAmount ==
    /\ get(req.params, "amount").some
    /\ LET v == get(req.params, "amount").v
       IN  \/ v.t = "Number" /\ v.n.k = "PosInt" /\ InU64(v.n.d)
           \/ v.t = "String" /\ IsUnsignedDecimal(v.s) /\ InU64(DecimalValue(v.s))

FieldSpecific(e) ==
    InSeq(MISSING_KEY, e.parts) \/ InSeq(BAD_AMOUNT, e.parts) \/ InSeq(MISSING_ADDRESS, e.parts)

\* C4: with a prover acquired, a spend request without a string spendingKey, or
\* a spend or output request whose amount is missing or unparseable, is
\* answered 400 with a field-specific error, not 500.
C4_ClientFault ==
    (/\ Generated /\ ProverAcquired
     /\ \/ req.proof_type = "spend" /\ ~HasStringKey
        \/ req.proof_type \in {"spend", "output"} /\ ~HasValidAmount)
    => /\ resp.status = 400
       /\ resp.error.some /\ FieldSpecific(resp.error.v)

\* C5: a spend request with a string spendingKey and a valid amount, the prover
\* acquired, is answered 500 with an error that contains "note commitment tree
\* witness" and with an empty proof.
C5_SpendLimitation ==
    (Generated /\ req.proof_type = "spend" /\ HasStringKey /\ HasValidAmount
        /\ ProverAcquired)
    => /\ resp.status = 500
       /\ resp.error.some /\ InSeq(NEEDS_WITNESS, resp.error.v.parts)
       /\ resp.proof = <<>>

\* such a request, the prover loaded from <cwd>/params, the amount a string
C5_Witness ==
    /\ Generated /\ req.proof_type = "spend" /\ HasStringKey /\ HasValidAmount
    /\ get(req.params, "amount").v.t = "String"
    /\ ProverAcquired
    /\ current_dir.some /\ params_dir = Some(join(current_dir.v, "params"))
    /\ resp.status = 500

\* C7: every accepted build-transaction request goes ReceivedRequest ->
\* ProverAcquired and ends there with 501, or ends with 500 when the prover is
\* not acquired; WitnessGathering, NoteSelection and Built are never reached;
\* every response has an empty raw_transaction, no txid and an error.
C7_BuildStateMachine ==
    /\ tx_state \in {"None", "ReceivedRequest", "ProverAcquired"}
    /\ (req.kind = "build" /\ pc \in {"done", "panicked"}) =>
         /\ pc = "done"
         /\ \/ tx_state = "ProverAcquired" /\ ProverAcquired /\ resp.status = 501
            \/ tx_state = "ReceivedRequest" /\ ~ProverAcquired /\ resp.status = 500
         /\ resp.raw_transaction = <<>>
         /\ resp.txid = None
         /\ resp.error.some

\* get_prover is over: it returned, or it aborted in a constructor
GetProverEnded == prover.some \/ (pc = "panicked" /\ calls # NoCalls)

ExplicitPaths(d) == <<join(d, SPEND_NAME), join(d, OUTPUT_NAME)>>

\* C8: get_prover consults the library's default location if and only if
\* find_params_dir returned None; when find_params_dir returned a directory the
\* prover is constructed from the two files of that directory and the default is
\* never consulted, so a complete <cwd>/params wins over the library default.
C8_ExplicitFirst ==
    /\ calls.default # <<>> => ~params_dir.some
    /\ GetProverEnded =>
         /\ calls.default # <<>> <=> ~params_dir.some
         /\ params_dir.some =>
              /\ calls.new = <<ExplicitPaths(params_dir.v)>>
              /\ prover.some =>
                   prover.v = Ok([spend |-> join(params_dir.v, SPEND_NAME),
                                  output |-> join(params_dir.v, OUTPUT_NAME)])
         /\ (current_dir.some /\ HoldsBoth(join(current_dir.v, "params"))) =>
              /\ params_dir = Some(join(current_dir.v, "params"))
              /\ calls.default = <<>>

\* <cwd>/params and the library's folder are both complete; the prover is the
\* one of <cwd>/params
C8_Witness ==
    /\ current_dir.some
    /\ HoldsBoth(join(current_dir.v, "params"))
    /\ HoldsBoth(default_dir)
    /\ ProverAcquired
    /\ prover.v.v.spend = join(join(current_dir.v, "params"), SPEND_NAME)
    /\ calls.default = <<>>

\* C10: in every response of /proofs/generate the proof is empty whenever the
\* error is set, the error is set whenever the status is not 200, and the error
\* is absent exactly when the status is 200.
C10_Envelope ==
    Generated =>
        /\ resp.error.some => resp.proof = <<>>
        /\ resp.status # 200 => resp.error.some
        /\ ~resp.error.some <=> resp.status = 200

\* an answer with an error, a status other than 200 and an empty proof
C10_Witness ==
    /\ Generated
    /\ resp.status = 400
    /\ resp.error.some
    /\ resp.proof = <<>>

(***************************************************************************)
(* Panics, previews, diagnostics                                           *)
(***************************************************************************)
\* a request of one of the two POST handlers is over
Ended == req.kind \in {"generate", "build"} /\ pc \in {"done", "panicked"}

\* the handler returned a response envelope
HasEnvelope == pc = "done" /\ resp # NoResponse /\ resp.status # 0

\* C11: for every request content and every filesystem state, generate_proof
\* and build_transaction each return a response envelope; no handler aborts.
C11_NoPanic ==
    /\ pc # "panicked"
    /\ Ended => HasEnvelope

\* s is the first n bytes of t
IsBytePrefix(s, t) ==
    /\ Len(s) <= Len(t)
    /\ \A i \in 1..Len(s) : s[i] = t[i]

\* the preview the clamp promises for address a: its prefix of min(20, L) bytes
ClampedPreview(p, a) ==
    /\ IsBytePrefix(p, a)
    /\ len(p) = Min(PreviewLen, len(a))

\* C12: for every from_address and to_address of length L, build_transaction
\* computes the preview as the prefix of length min(20, L), never reading past
\* the end of the string; with empty addresses and an acquired prover the final
\* status is 501.
C12_PreviewClamp ==
    /\ (req.kind = "build" /\ pc # "idle") =>
         /\ Len(previews) = 2
         /\ ClampedPreview(previews[1], req.from_address)
         /\ ClampedPreview(previews[2], req.to_address)
    /\ (req.kind = "build" /\ pc = "done" /\ ProverAcquired
          /\ req.from_address = <<>> /\ req.to_address = <<>>) =>
         resp.status = 501

\* get_prover returned the error of lines 173-224: the explicit search found
\* nothing and the library's default location gave no prover
InitFailed == prover.some /\ ~prover.v.ok /\ calls.default # <<>>

\* every directory the search examined is in the message
ListsChecked(e) == \A i \in 1..Len(probed) : InSeq(probed[i], e.args)

\* the candidate closest to complete: the first that holds one of the two
\* files, or <cwd>/params (the first candidate there is) when none holds any
BestCandidate ==
    IF \E i \in 1..Len(probed) : HoldsOne(probed[i])
    THEN probed[CHOOSE i \in 1..Len(probed) :
                  HoldsOne(probed[i]) /\ \A j \in 1..(i - 1) : ~HoldsOne(probed[j])]
    ELSE probed[1]

\* the message names a file of directory d as missing, and only files that are
NamesMissingAt(e, d) ==
    /\ InSeq("Missing: ", e.parts)
    /\ \A n \in {SPEND_NAME, OUTPUT_NAME} :
         InSeq(join(d, n), e.args) <=> ~exists(fs, join(d, n))

\* C13: whenever both the explicit search and the library-default resolution
\* fail, the error of get_prover lists the locations that were checked, names
\* which of the two required files is missing at the best candidate, and
\* carries the download hint, in every filesystem state.
C13_InitDiagnostic ==
    InitFailed =>
        /\ probed # <<>>
        /\ ListsChecked(prover.v.e)
        /\ NamesMissingAt(prover.v.e, BestCandidate)
        /\ InSeq(HINT_DOWNLOAD, prover.v.e.parts)

(***************************************************************************)
(* Health                                                                  *)
(***************************************************************************)
\* C14: GET /health answers 200 with body "OK" whatever the state of the
\* parameter files and whatever requests came before, and looks up no
\* parameter: no directory is probed and no constructor is invoked.
C14_Health ==
    (req.kind = "health" /\ pc = "done") =>
        /\ resp.status = 200
        /\ resp.body = JString(<<"O", "K">>)
        /\ probed = <<>>
        /\ params_dir = None
        /\ calls = NoCalls
        /\ ~prover.some

\* /health answered 200 after a request that failed, with no complete set of
\* parameters anywhere
C14_Witness ==
    /\ req.kind = "health"
    /\ pc = "done"
    /\ failed_before
    /\ CompleteAt = {}
    /\ ~HoldsBoth(default_dir)
    /\ resp.status = 200

(***************************************************************************)
(* The depth of the walk from the working directory, under SpecLocate      *)
(***************************************************************************)
\* <a>/params for the k-th ancestor a of cwd (k = 0: cwd itself)
AncestorParams(k) == join(Ancestor(current_dir.v, k), "params")

\* no candidate of steps 1 and 2 nearer than the k-th ancestor is complete
NoneCompleteBelow(k) == \A j \in 0..(k - 1) : ~HoldsBoth(AncestorParams(j))

\* what steps 1 and 2 examine: the first entries of probed
CwdWalkProbed == search_cwd(current_dir, fs).probed

\* C15 as stated: step 2 examines <a>/params for every ancestor a of cwd from
\* 1 up to 5 levels above it, stopping early at the root, and for none further
\* up; a complete set under the 5th ancestor is returned when no earlier
\* candidate is complete.
C15_Original ==
    (pc = "located" /\ current_dir.some) =>
        /\ \A k \in 1..Min(WalkDepth, Len(current_dir.v)) :
             NoneCompleteBelow(k) => InSeq(AncestorParams(k), CwdWalkProbed)
        /\ \A k \in (WalkDepth + 1)..Len(current_dir.v) :
             ~InSeq(AncestorParams(k), CwdWalkProbed)
        /\ (/\ Len(current_dir.v) >= WalkDepth
            /\ NoneCompleteBelow(WalkDepth)
            /\ HoldsBoth(AncestorParams(WalkDepth)))
           => params_dir = Some(AncestorParams(WalkDepth))

\* the directories steps 1 and 2 examine when none is complete: <cwd>/params,
\* then the five turns of the loop, which start at cwd again and stop at the root
CwdWalkOrder ==
    <<AncestorParams(0)>>
    \o [i \in 1..Min(WalkDepth, Len(current_dir.v) + 1) |-> AncestorParams(i - 1)]

\* C15, amended: the five turns of step 2 start at cwd itself, so step 2
\* examines <cwd>/params again and then <a>/params for the ancestors 1 to 4 of
\* cwd, in that order, stopping early at the root or at a complete set, and no
\* other directory; a complete set under the 4th ancestor is returned when no
\* earlier candidate is complete, and one under the 5th ancestor is not found
\* by the walk from cwd.
C15_WalkDepth ==
    (pc = "located" /\ current_dir.some) =>
        /\ \A i \in 1..Min(Len(probed), Len(CwdWalkOrder)) : probed[i] = CwdWalkOrder[i]
        /\ NoneCompleteBelow(Min(WalkDepth, Len(current_dir.v) + 1)) =>
             Len(probed) >= Len(CwdWalkOrder)
        /\ \A k \in 1..Min(WalkDepth - 1, Len(current_dir.v)) :
             (NoneCompleteBelow(k) /\ HoldsBoth(AncestorParams(k)))
             => params_dir = Some(AncestorParams(k))
        /\ (/\ Len(current_dir.v) >= WalkDepth
            /\ HoldsBoth(AncestorParams(WalkDepth))
            /\ CompleteAt = {})
           => params_dir = None

\* the only complete set is under the 5th ancestor of cwd, no other step
\* reaches it, and nothing is returned
C15_Witness ==
    /\ pc = "located"
    /\ current_dir.some
    /\ Len(current_dir.v) >= WalkDepth
    /\ HoldsBoth(AncestorParams(WalkDepth))
    /\ CompleteAt = {}
    /\ ~InSeq(AncestorParams(WalkDepth), probed)
    /\ InSeq(AncestorParams(WalkDepth - 1), probed)
    /\ params_dir = None

(***************************************************************************)
(* generate_proof: the prover comes first; what the two routines answer    *)
(***************************************************************************)
\* get_prover returned an error
ProverFailed == prover.some /\ ~prover.v.ok

\* C16: whenever get_prover fails, generate_proof answers 500 with the error
\* of get_prover and an empty proof, whatever the type and the params of the
\* request: the type is not matched and no field of params is validated.
C16_ProverFirst ==
    (Generated /\ ProverFailed) =>
        /\ resp.status = 500
        /\ resp.error = Some(prover.v.e)
        /\ resp.proof = <<>>
        /\ ~FieldSpecific(resp.error.v)
        /\ ~NamesType(resp.error.v)

\* get_prover failed for a request of unknown type whose params are not even
\* an object, and the answer is the 500 of the prover
C16_Witness ==
    /\ Generated /\ ProverFailed
    /\ UnknownType
    /\ req.params = JNull
    /\ resp.status = 500
    /\ resp.error = Some(prover.v.e)

\* the error names the missing address decoding and points to lightwalletd
OutputLimitation(e) ==
    InSeq(NEEDS_DECODING, e.parts) /\ InSeq(USE_LIGHTWALLETD, e.parts)

\* C19: with the prover acquired, an output request that carries a string
\* toAddress and a valid amount is answered 500 with the limitation error that
\* names the missing payment address decoding and points to lightwalletd, and
\* with an empty proof; a missing toAddress is reported before the amount is
\* examined.
C19_OutputLimitation ==
    (Generated /\ req.proof_type = "output" /\ ProverAcquired) =>
        /\ (HasStringAddress /\ HasValidAmount) =>
             /\ resp.status = 500
             /\ resp.error.some /\ OutputLimitation(resp.error.v)
             /\ resp.proof = <<>>
        /\ ~HasStringAddress =>
             /\ resp.error.some
             /\ InSeq(MISSING_ADDRESS, resp.error.v.parts)
             /\ ~InSeq(BAD_AMOUNT, resp.error.v.parts)

\* an output request with an address and an amount given as a number, answered
\* with the limitation error
C19_Witness ==
    /\ Generated /\ req.proof_type = "output" /\ ProverAcquired
    /\ HasStringAddress /\ HasValidAmount
    /\ get(req.params, "amount").v.t = "Number"
    /\ resp.status = 500
    /\ OutputLimitation(resp.error.v)

\* C20: on every path of generate_proof, for every request and filesystem
\* state, the answer has status 400 or 500 and an empty proof: the 200 branches
\* are never taken, since both proof routines return Err on every input.
C20_NoProof ==
    /\ Generated =>
         /\ resp.status \in {400, 500}
         /\ resp.proof = <<>>
    /\ (pc = "respond" /\ req.kind = "generate") =>
         /\ ~generate_spend_proof(req.params).ok
         /\ ~generate_output_proof(req.params).ok

\* the requests that would be answered 200 if a proof were produced: complete
\* params, the prover acquired, for spend and for output
C20_Witness ==
    /\ Generated /\ ProverAcquired
    /\ req.proof_type \in {"spend", "output"}
    /\ HasStringKey /\ HasStringAddress /\ HasValidAmount
    /\ resp.status = 500
    /\ resp.proof = <<>>

(***************************************************************************)
(* The operator: parameter files are added, removed or made unreadable     *)
(* while the service runs. The handlers only read the filesystem.          *)
(***************************************************************************)
OperatorDirs ==
    {join(<<"p">>, "params"), join(HomePath, ".zcash-params"), AppDataParams}

OperatorFiles == {join(d, n) : d \in OperatorDirs, n \in {SPEND_NAME, OUTPUT_NAME}}

\* the filesystem with file in state st
WithFile(f, file, st) ==
    [x \in DOMAIN f \cup {file, parent(file).v} |->
        IF x = file THEN st ELSE IF x = parent(file).v THEN "dir" ELSE f[x]]

\* the filesystem without file; its directory stays
WithoutFile(f, file) == [x \in DOMAIN f \ {file} |-> f[x]]

OperatorFrame ==
    <<current_dir, current_exe, home_dir, default_dir, pc, req, params_dir,
      probed, prover, error_msg, calls, resp, previews, tx_state,
      failed_before, other>>

\* a valid parameter file is put in place
PlaceFile ==
    /\ ops < MaxOps
    /\ \E file \in OperatorFiles :
         /\ ~(file \in DOMAIN fs /\ fs[file] = "present")
         /\ fs' = WithFile(fs, file, "present")
    /\ ops' = ops + 1
    /\ UNCHANGED OperatorFrame

\* a parameter file is deleted
RemoveFile ==
    /\ ops < MaxOps
    /\ \E file \in OperatorFiles :
         /\ file \in DOMAIN fs
         /\ fs' = WithoutFile(fs, file)
    /\ ops' = ops + 1
    /\ UNCHANGED OperatorFrame

\* a parameter file is made unreadable: it still exists, it cannot be loaded
MakeUnreadable ==
    /\ ops < MaxOps
    /\ \E file \in OperatorFiles :
         /\ file \in DOMAIN fs
         /\ fs[file] = "present"
         /\ fs' = WithFile(fs, file, "corrupt")
    /\ ops' = ops + 1
    /\ UNCHANGED OperatorFrame

\* no worker has a request in hand
Quiet == Free /\ other.pc = "idle"

\* the operator acts between requests
PlaceFileIdle == Quiet /\ PlaceFile
RemoveFileIdle == Quiet /\ RemoveFile
MakeUnreadableIdle == Quiet /\ MakeUnreadable

\* the service of the two operator specifications: cwd = /p, nothing on disk
\* or one directory, complete or not
InitOperator ==
    /\ current_dir = Some(<<"p">>)
    /\ current_exe = ServiceExe
    /\ home_dir = Some(HomePath)
    /\ default_dir = AppDataParams
    /\ \E d \in OperatorDirs, k \in DirKinds \cup {NoDir} : fs = MakeFs(d, k, d, NoDir)
    /\ InitHandler

(***************************************************************************)
(* SpecOperator: two worker threads serve requests side by side, and the   *)
(* files change between requests                                           *)
(***************************************************************************)
\* what the running worker holds of its request: the locals of its handler
Worker ==
    [pc |-> pc, req |-> req, params_dir |-> params_dir, probed |-> probed,
     prover |-> prover, error_msg |-> error_msg, calls |-> calls,
     resp |-> resp, previews |-> previews, tx_state |-> tx_state]

\* HttpServer::run() (lines 491-499) serves with several worker threads: the
\* scheduler lets the other thread run; each keeps the locals of its handler
Switch ==
    /\ Worker # other
    /\ other' = Worker
    /\ pc' = other.pc
    /\ req' = other.req
    /\ params_dir' = other.params_dir
    /\ probed' = other.probed
    /\ prover' = other.prover
    /\ error_msg' = other.error_msg
    /\ calls' = other.calls
    /\ resp' = other.resp
    /\ previews' = other.previews
    /\ tx_state' = other.tx_state
    /\ UNCHANGED <<Env, ops, failed_before>>

\* the requests the two workers are given: a spend proof, a transaction to
\* build
WorkerProofRequests ==
    {[kind |-> "generate", proof_type |-> t,
      params |-> ObjectOf(Some(JString(<<"s", "k">>)), Some(JString(<<"z", "s">>)),
                          Some(JNumber(PosInt(<<1, 0, 0, 0>>)))) ] :
        t \in {"spend"}}

WorkerBuildRequests ==
    {[kind |-> "build", spending_key |-> <<"s", "k">>, from_address |-> <<"a">>,
      to_address |-> <<>>, amount |-> <<"1", "0", "0", "0">>, memo |-> <<>>]}

ReceiveGenerateWorker == ReceiveGenerateOf(WorkerProofRequests)
ReceiveBuildWorker == ReceiveBuildOf(WorkerBuildRequests)

NextOperator ==
    \/ ReceiveGenerateWorker
    \/ ReceiveBuildWorker
    \/ FindParams
    \/ ProbeOutput
    \/ VerifyFiles
    \/ VerifyOutput
    \/ Construct
    \/ ConstructOutput
    \/ DefaultLocation
    \/ DefaultSpend
    \/ DefaultOutput
    \/ DefaultNew
    \/ DefaultNewOutput
    \/ InitError
    \/ ReportSpend
    \/ ReportOutput
    \/ RespondGenerate
    \/ RespondBuild
    \/ Health
    \/ Return
    \/ Switch
    \/ PlaceFileIdle
    \/ RemoveFileIdle
    \/ MakeUnreadableIdle

SpecOperator == InitOperator /\ [][NextOperator]_vars

(***************************************************************************)
(* SpecRace: the files change at any step of a request                     *)
(***************************************************************************)
NextRace ==
    \/ Next
    \/ PlaceFile
    \/ RemoveFile
    \/ MakeUnreadable

SpecRace == InitOperator /\ [][NextRace]_vars

\* both files of the directory get_prover is about to load exist and can be read
BothReadable ==
    /\ loadable(fs, join(params_dir.v, SPEND_NAME))
    /\ loadable(fs, join(params_dir.v, OUTPUT_NAME))

\* this step invokes LocalTxProver::new
InvokesNew == calls'.new # calls.new /\ calls'.new # <<>>

\* C17: with the operator adding, removing or making unreadable the parameter
\* files at any step of a request, LocalTxProver::new(spend_path, output_path)
\* is invoked only in a state where both files exist and are readable at that
\* moment; a file that disappears after find_params_dir accepted the directory
\* leads to an error response, never to construction (a constructor that is
\* invoked does not abort).
C17_NoPartialSetUnderRace ==
    /\ [][InvokesNew => BothReadable]_vars
    /\ [](calls.new # <<>> => pc # "panicked")

(***************************************************************************)
(* Nothing is kept between requests                                        *)
(***************************************************************************)
\* where the parameters are, read from the filesystem as it is now: the first
\* complete candidate, or the library's own folder when no candidate is
ResolvedDir ==
    IF CompleteAt # {} THEN CandidateOrder[FirstComplete] ELSE default_dir

\* the answer get_prover owes to the filesystem as it is now
OutcomeOf(p) ==
    /\ p.some
    /\ p.v.ok <=> HoldsBoth(ResolvedDir)
    /\ p.v.ok => p.v.v = [spend |-> join(ResolvedDir, SPEND_NAME),
                          output |-> join(ResolvedDir, OUTPUT_NAME)]

OutcomeOfFiles == OutcomeOf(prover)

\* what a request that runs alone is given on the files as they are now
AloneOutcome == Some(get_prover(current_dir, current_exe, home_dir, default_dir, fs))

\* get_prover returned to a handler
GetProverReturned == req.kind \in {"generate", "build"} /\ pc \in {"respond", "done"}

\* get_prover returned to the handler of the other worker
OtherReturned ==
    other.req.kind \in {"generate", "build"} /\ other.pc \in {"respond", "done"}

\* the other worker is in the middle of get_prover
OtherSearching ==
    /\ other.req.kind \in {"generate", "build"}
    /\ other.pc \in {"get_prover", "probe_output"}
    /\ other.probed # <<>>

\* a step of the handler of the running worker
HandlerStep == pc' # pc /\ ~Switch

\* C18: get_prover keeps nothing between requests: its outcome depends only on
\* the filesystem during the current request, whatever failed before, so once
\* both files are in place at a candidate location the next request acquires
\* a prover without a restart; and with two requests in flight on two worker
\* threads, their steps interleaved in every order, each is given what the
\* files give and what it would be given alone, and no step of one changes
\* the files, the environment or anything the other holds.
C18_NoPoison ==
    /\ [](GetProverReturned => (OutcomeOfFiles /\ prover = AloneOutcome))
    /\ [](OtherReturned => (OutcomeOf(other.prover) /\ other.prover = AloneOutcome))
    /\ [][HandlerStep => UNCHANGED <<Env, ops, other>>]_vars

\* requests failed, the operator then put the files in place, and a request
\* has its prover while the other worker is in the middle of its own search
C18_Witness ==
    /\ GetProverReturned
    /\ failed_before
    /\ ops > 0
    /\ ProverAcquired
    /\ resp.status \in {400, 500, 501}
    /\ OtherSearching

(***************************************************************************)
(* Termination                                                             *)
(***************************************************************************)
\* 1 for cwd, 5 in the walk from cwd, 5 in the walk from the executable, 1 for
\* home
MaxProbes == 1 + WalkDepth + WalkDepth + 1

\* the request of a POST handler is over, one way or the other
RequestOver == req.kind \in {"generate", "build"} /\ pc \in {"done", "panicked"}

\* C21: find_params_dir finishes after probing at most 12 candidate
\* directories in every filesystem state, and every generate_proof and
\* build_transaction request ends with exactly one response.
C21_Termination ==
    /\ Len(probed) <= MaxProbes
    /\ RequestOver => (pc = "done" /\ resp # NoResponse)

(***************************************************************************)
(* The search step by step and find_params_dir as one function             *)
(***************************************************************************)
\* with the files unchanged while the search runs, the steps FindParams and
\* ProbeOutput end with what find_params_dir gives on the same filesystem
FindParamsAgrees ==
    pc \in {"verify", "default"} =>
        LET r == find_params_dir(current_dir, current_exe, home_dir, fs)
        IN  params_dir = r.found /\ probed = r.probed


\* with the files unchanged while the message is built, the steps InitError,
\* ReportSpend and ReportOutput end with what init_error gives on the same
\* filesystem
InitErrorAgrees ==
    (pc = "respond" /\ error_msg # Message(<<>>)) =>
        prover = Some(Err(init_error(current_dir, current_exe, fs)))

\* the constructor gave a prover although its two files were never readable
\* together: the spend file was read, then removed, and only then the output
\* file became valid
LoadedNeverTogether ==
    /\ pc = "respond"
    /\ prover.some /\ prover.v.ok
    /\ calls.new # <<>>
    /\ ~exists(fs, prover.v.v.spend)
    /\ ops = 2

\* the two files of <cwd>/params are reported missing in one message
BothReportedMissing ==
    /\ pc = "respond"
    /\ prover.some /\ ~prover.v.ok
    /\ Len(SelectSeq(prover.v.e.parts, LAMBDA x : x = "Missing: ")) = 2

\* a file of <cwd>/params was there at every moment of the request, and the
\* message reports both missing: the lookups of lines 198 and 207 are apart
ReportedMissingNeverTogether ==
    /\ BothReportedMissing
    /\ exists(fs, join(join(current_dir.v, "params"), SPEND_NAME))
    /\ ops = 2
====
